---------------------------- MODULE Spec2Model ----------------------------
(***************************************************************************)
(* Multi-agent document pipeline: shared memory manager (lib/memory.ts),   *)
(* classifier / JSON / Email agents and the orchestrator (actions.ts).     *)
(*                                                                         *)
(* Every `await` of the TypeScript source is a suspension point: a label   *)
(* of pc names the await a caller is suspended at, and one action is the   *)
(* completion of that await followed by the synchronous code up to the     *)
(* next await.  Durable storage (Postgres) may raise at every call.        *)
(***************************************************************************)
EXTENDS Integers, Sequences, FiniteSets, TLC

(***************************************************************************)
(* Bounds of the model.                                                    *)
(***************************************************************************)
NProcs == 2          \* concurrent callers
MaxLen == 3          \* longest content, in tokens
MaxClock == 2        \* latest clock reading
MaxCalls == 3        \* memory-manager API calls per behaviour
MaxSessions == 2     \* processInput sessions per behaviour

Procs == 1..NProcs

(***************************************************************************)
(* Content.  A content string is a sequence of tokens; each token is a     *)
(* fixed piece of text.  No token other than "From:" / "SUBJECT:" holds a  *)
(* colon, so a marker can only occur as a whole token.                     *)
(***************************************************************************)
NL == "\n"
Q == "\""
Chars == {"From:", "SUBJECT:", "x", NL, Q, "1", "null", "[]", "{}"}

RECURSIVE SeqsUpTo(_)
SeqsUpTo(n) ==
    IF n = 0 THEN {<<>>}
    ELSE LET shorter == SeqsUpTo(n - 1)
         IN shorter \cup {Append(s, c) : s \in {t \in shorter : Len(t) = n - 1}, c \in Chars}

AllContents == SeqsUpTo(MaxLen)

\* String.prototype.toLowerCase, token by token
ToLowerTok(c) ==
    CASE c = "From:" -> "from:"
      [] c = "SUBJECT:" -> "subject:"
      [] OTHER -> c

toLowerCase(s) == [i \in 1..Len(s) |-> ToLowerTok(s[i])]

\* String.prototype.includes for a marker that is one token long
includes(s, marker) == \E i \in 1..Len(s) : s[i] = marker

\* String.prototype.startsWith for a marker that is one token long
startsWith(s, marker) == Len(s) > 0 /\ s[1] = marker

\* String.prototype.trim / JSON whitespace skipping: NL is the only whitespace token
RECURSIVE trimLeft(_)
trimLeft(s) == IF s # <<>> /\ Head(s) = NL THEN trimLeft(Tail(s)) ELSE s

RECURSIVE trimRight(_)
trimRight(s) ==
    IF s # <<>> /\ s[Len(s)] = NL THEN trimRight(SubSeq(s, 1, Len(s) - 1)) ELSE s

trim(s) == trimRight(trimLeft(s))

\* The kind of JSON value a whitespace-trimmed text is, or "invalid"
JsonKind(t) ==
    IF t = <<>> THEN "invalid"
    ELSE IF \A i \in 1..Len(t) : t[i] = "1" THEN "number"
    ELSE IF t = <<"null">> THEN "null"
    ELSE IF t = <<"[]">> THEN "array"
    ELSE IF t = <<"{}">> THEN "object"
    ELSE IF /\ Len(t) >= 2
            /\ t[1] = Q
            /\ t[Len(t)] = Q
            /\ \A i \in 2..(Len(t) - 1) : t[i] \notin {Q, NL}
         THEN "string"
    ELSE "invalid"

\* JSON.parse(content): ok = FALSE stands for the SyntaxError it throws
JSONparse(content) ==
    LET t == trim(content)
        k == JsonKind(t)
    IN [ok |-> k # "invalid", kind |-> k, value |-> IF k = "invalid" THEN <<>> ELSE t]

\* Object.keys(v) throws a TypeError for null (and undefined) only
ObjectKeysThrows(v) == v.kind = "null"

\* content.split("\n")
RECURSIVE split(_)
split(s) ==
    IF \A i \in 1..Len(s) : s[i] # NL THEN <<s>>
    ELSE LET i == CHOOSE j \in 1..Len(s) : s[j] = NL /\ \A k \in 1..(j - 1) : s[k] # NL
         IN <<SubSeq(s, 1, i - 1)>> \o split(SubSeq(s, i + 1, Len(s)))

\* lines.find(line => line.toLowerCase().startsWith(marker)); <<>> stands for undefined
\* when found = FALSE
findLine(lines, marker) ==
    IF \E i \in 1..Len(lines) : startsWith(toLowerCase(lines[i]), marker)
    THEN [found |-> TRUE,
          line |-> lines[CHOOSE i \in 1..Len(lines) :
                           /\ startsWith(toLowerCase(lines[i]), marker)
                           /\ \A j \in 1..(i - 1) : ~startsWith(toLowerCase(lines[j]), marker)]]
    ELSE [found |-> FALSE, line |-> <<>>]


(***************************************************************************)
(* State.                                                                  *)
(***************************************************************************)
VARIABLES
    hasPg,         \* hasPostgresConnection(): durable storage is configured
    agent_memory,  \* Postgres table agent_memory: id -> [data, created_at]
    agent_logs,    \* Postgres table agent_logs: a set of rows
    memoryStore,   \* the in-process store: id -> mapping
    logsStore,     \* the in-process log store, newest first
    now,           \* the clock (new Date(), CURRENT_TIMESTAMP)
    uuids,         \* uuidv4() values handed out so far
    pc,            \* per caller: the await it is suspended at
    cont,          \* per caller: where the pending memory-manager call returns to
    frame,         \* per caller: the pending memory-manager call's locals
    ret,           \* per caller: what the last memory-manager call returned
    sess,          \* per caller: the locals of processInput and of its agents
    calls,         \* history: API calls issued so far
    sessions,      \* history: processInput sessions started so far
    hist,          \* history: per id, the partial mappings whose save reported success
    initialized,   \* the logs route's module flag `initialized`
    schema,        \* the tables that exist in the database
    inits          \* history: initializeDatabase invocations so far

vars == <<hasPg, agent_memory, agent_logs, memoryStore, logsStore, now, uuids,
          pc, cont, frame, ret, sess, calls, sessions, hist,
          initialized, schema, inits>>

\* what no operation of the memory manager or of the agents changes
setup == <<hasPg, initialized, schema, inits>>

\* CREATE TABLE IF NOT EXISTS agent_memory / agent_logs
Tables == {"agent_memory", "agent_logs"}

storeVars == <<agent_memory, agent_logs, memoryStore, logsStore, now, uuids>>

(***************************************************************************)
(* Session ids and partial mappings the API callers supply.                *)
(***************************************************************************)
NIds == 2
Ids == 1..NIds

Undefined == -1      \* the JavaScript value undefined, among scalar values

\* keys whose values are scalars (numbers); all other keys hold defined values
ScalarKeys == {"a", "b", "created_at"}

Partials ==
    { [a |-> 1], [a |-> 2], [b |-> 2], [created_at |-> 0], [b |-> Undefined] }

EmptyRec == [k \in {} |-> 0]

Keys(rec) == DOMAIN rec

Put(f, k, v) == [x \in (DOMAIN f) \cup {k} |-> IF x = k THEN v ELSE f[x]]

\* new Date() / CURRENT_TIMESTAMP: the clock may have advanced since the last reading
ClockReadingsFrom(t0) == {t \in {t0, t0 + 1} : t <= MaxClock}

ClockReadings == ClockReadingsFrom(now)

(***************************************************************************)
(* lib/memory.ts: saveToMemory, getFromMemory.                             *)
(***************************************************************************)
\* mutant: the write replaces the record instead of merging into it
Merge_replace(existingData, data) == data

\* { ...existingData, ...data }
Merge(existingData, data) ==
    [k \in (DOMAIN existingData) \cup (DOMAIN data) |->
        IF k \in DOMAIN data THEN data[k] ELSE existingData[k]]

\* { ...data, created_at: new Date().toISOString() }
WithCreatedAt(data, t) ==
    [k \in (DOMAIN data) \cup {"created_at"} |-> IF k = "created_at" THEN t ELSE data[k]]

\* the in-memory branch and the catch block of saveToMemory
MemoryMerge(store, id, data, t) ==
    IF id \in DOMAIN store
    THEN [store EXCEPT ![id] = Merge(store[id], data)]
    ELSE Put(store, id, WithCreatedAt(data, t))

\* JSON.stringify followed by the JSONB parse: a key whose value is undefined is dropped
JSONstringify(data) ==
    [k \in {x \in DOMAIN data : ~(x \in ScalarKeys /\ data[x] = Undefined)} |-> data[k]]

\* SELECT data FROM agent_memory WHERE id = ${id}
SelectData(table, id) ==
    IF id \in DOMAIN table
    THEN [found |-> TRUE, data |-> table[id].data]
    ELSE [found |-> FALSE, data |-> EmptyRec]

\* mutant: the UPDATE has no WHERE clause
UpdateData_noWhere(table, id, mergedData) ==
    [i \in DOMAIN table |-> [table[i] EXCEPT !.data = JSONstringify(mergedData)]]

\* mutant: the UPDATE merges into the row as it is when the statement runs
\* (SET data = data || ...), so what was stored since the SELECT is kept
UpdateData_mergesInPlace(table, id, mergedData) ==
    IF id \in DOMAIN table
    THEN [table EXCEPT ![id].data = Merge(@, JSONstringify(mergedData))]
    ELSE table

\* UPDATE agent_memory SET data = ${JSON.stringify(mergedData)} WHERE id = ${id}
UpdateData(table, id, mergedData) ==
    IF id \in DOMAIN table
    THEN [table EXCEPT ![id].data = JSONstringify(mergedData)]
    ELSE table

\* INSERT INTO agent_memory (id, data) VALUES (...): created_at defaults to CURRENT_TIMESTAMP
InsertData(table, id, data, t) ==
    Put(table, id, [data |-> JSONstringify(data), created_at |-> t])

\* mutant: the fallback answers null without looking the record up
MemoryGet_null(store, id) == [found |-> FALSE, data |-> EmptyRec]

\* memoryStore[id] || null
MemoryGet(store, id) ==
    IF id \in DOMAIN store
    THEN [found |-> TRUE, data |-> store[id]]
    ELSE [found |-> FALSE, data |-> EmptyRec]

\* return { success: true }, on the try path and at the end of the catch block
SaveReturn == [status |-> "ok", success |-> TRUE, found |-> FALSE, data |-> EmptyRec]

\* the value a read returns (null when found = FALSE)
GetReturn(r) == [status |-> "ok", success |-> TRUE, found |-> r.found, data |-> r.data]

NoFrame == [fn |-> "none", id |-> 0, data |-> EmptyRec, existing |-> [found |-> FALSE, data |-> EmptyRec],
            caught |-> FALSE]

NoRet == [status |-> "none", success |-> FALSE, found |-> FALSE, data |-> EmptyRec]

Completed(id, data) == [hist EXCEPT ![id] = Append(@, data)]

\* the call saveToMemory(id, data) by caller p at clock reading t0, returning to label k:
\* the code up to the first await (with no durable storage, the whole merge)
CallSave(p, id, data, k, t0) ==
    /\ frame' = [frame EXCEPT ![p] = [NoFrame EXCEPT !.fn = "save", !.id = id, !.data = data]]
    /\ cont' = [cont EXCEPT ![p] = k]
    /\ UNCHANGED <<agent_memory, agent_logs, logsStore, uuids>>
    /\ IF hasPg
       THEN /\ pc' = [pc EXCEPT ![p] = "save_select"]
            /\ now' = t0
            /\ UNCHANGED <<memoryStore, ret, hist>>
       ELSE \E t \in (IF id \in DOMAIN memoryStore THEN {t0} ELSE ClockReadingsFrom(t0)) :
            /\ memoryStore' = MemoryMerge(memoryStore, id, data, t)
            /\ now' = t
            /\ ret' = [ret EXCEPT ![p] = SaveReturn]
            /\ hist' = Completed(id, data)
            /\ pc' = [pc EXCEPT ![p] = k]

\* the catch block of saveToMemory, entered when a durable call raised
SaveCatch(p) ==
    LET id == frame[p].id
        data == frame[p].data
    IN \E t \in (IF id \in DOMAIN memoryStore THEN {now} ELSE ClockReadings) :
       /\ memoryStore' = MemoryMerge(memoryStore, id, data, t)
       /\ now' = t
       /\ frame' = [frame EXCEPT ![p].caught = TRUE]
       /\ ret' = [ret EXCEPT ![p] = SaveReturn]
       /\ hist' = Completed(id, data)
       /\ pc' = [pc EXCEPT ![p] = cont[p]]
       /\ UNCHANGED agent_memory

\* await import(...) and await sql`SELECT ...` complete, or one of them raises
SaveSelect(p) ==
    /\ pc[p] = "save_select"
    /\ UNCHANGED <<setup, agent_logs, logsStore, uuids, cont, sess, calls, sessions>>
    /\ \/ /\ frame' = [frame EXCEPT ![p].existing = SelectData(agent_memory, frame[p].id)]
          /\ pc' = [pc EXCEPT ![p] = "save_write"]
          /\ UNCHANGED <<agent_memory, memoryStore, now, ret, hist>>
       \/ SaveCatch(p)

\* await sql`UPDATE ...` / sql`INSERT ...` completes, or raises (the INSERT always
\* raises when a row with this id exists by now: id is the primary key)
SaveWrite(p) ==
    LET id == frame[p].id
        data == frame[p].data
        existingEntry == frame[p].existing
    IN /\ pc[p] = "save_write"
       /\ UNCHANGED <<setup, agent_logs, logsStore, uuids, cont, sess, calls, sessions>>
       /\ \/ /\ existingEntry.found
             /\ agent_memory' = UpdateData(agent_memory, id, Merge(existingEntry.data, data))
             /\ ret' = [ret EXCEPT ![p] = SaveReturn]
             /\ hist' = Completed(id, data)
             /\ pc' = [pc EXCEPT ![p] = cont[p]]
             /\ UNCHANGED <<memoryStore, now, frame>>
          \/ /\ ~existingEntry.found
             /\ id \notin DOMAIN agent_memory
             /\ \E t \in ClockReadings :
                /\ agent_memory' = InsertData(agent_memory, id, data, t)
                /\ now' = t
             /\ ret' = [ret EXCEPT ![p] = SaveReturn]
             /\ hist' = Completed(id, data)
             /\ pc' = [pc EXCEPT ![p] = cont[p]]
             /\ UNCHANGED <<memoryStore, frame>>
          \/ SaveCatch(p)

\* the call getFromMemory(id) by caller p, returning to label k
CallGet(p, id, k) ==
    /\ frame' = [frame EXCEPT ![p] = [NoFrame EXCEPT !.fn = "get", !.id = id]]
    /\ cont' = [cont EXCEPT ![p] = k]
    /\ UNCHANGED <<storeVars, hist>>
    /\ IF hasPg
       THEN /\ pc' = [pc EXCEPT ![p] = "get_select"]
            /\ UNCHANGED ret
       ELSE /\ ret' = [ret EXCEPT ![p] = GetReturn(MemoryGet(memoryStore, id))]
            /\ pc' = [pc EXCEPT ![p] = k]

\* await sql`SELECT ...` of getFromMemory completes, or raises and the catch block
\* answers from memoryStore
GetSelect(p) ==
    /\ pc[p] = "get_select"
    /\ UNCHANGED <<setup, storeVars, cont, sess, calls, sessions, hist>>
    /\ pc' = [pc EXCEPT ![p] = cont[p]]
    /\ \/ /\ ret' = [ret EXCEPT ![p] = GetReturn(SelectData(agent_memory, frame[p].id))]
          /\ UNCHANGED frame
       \/ /\ ret' = [ret EXCEPT ![p] = GetReturn(MemoryGet(memoryStore, frame[p].id))]
          /\ frame' = [frame EXCEPT ![p].caught = TRUE]

(***************************************************************************)
(* lib/memory.ts: logAgentActivity.                                        *)
(***************************************************************************)
LogCap == 100

\* mutant: at capacity the 100 oldest entries are kept and the new one is dropped
LogUnshift_dropsNewest(store, entry) ==
    LET s == <<entry>> \o store
    IN IF Len(s) > LogCap THEN SubSeq(s, 2, Len(s)) ELSE s

\* mutant: the new entry is pushed at the end of the log
LogUnshift_push(store, entry) ==
    LET s == store \o <<entry>>
    IN IF Len(s) > LogCap THEN SubSeq(s, 1, LogCap) ELSE s

\* logsStore.unshift(entry); if (logsStore.length > 100) logsStore = logsStore.slice(0, 100)
LogUnshift(store, entry) ==
    LET s == <<entry>> \o store
    IN IF Len(s) > LogCap THEN SubSeq(s, 1, LogCap) ELSE s

LogEntry(id, agent, action, details, timestamp) ==
    [id |-> id, agent |-> agent, action |-> action, details |-> details, timestamp |-> timestamp]

\* return { success: true, id } at the end of the try block
LogReturn == [status |-> "ok", success |-> TRUE, found |-> FALSE, data |-> EmptyRec]

\* mutant: the catch block rethrows instead of returning
LogCatchReturn_rethrows == [status |-> "raised", success |-> FALSE, found |-> FALSE, data |-> EmptyRec]

\* return { success: true, id } at the end of the catch block
LogCatchReturn == [status |-> "ok", success |-> TRUE, found |-> FALSE, data |-> EmptyRec]

\* the call logAgentActivity(agent, action, details) by caller p, returning to label k:
\* a fresh id and the time are taken, then the INSERT is awaited (with no durable
\* storage the entry is put at the head of logsStore)
CallLog(p, agent, action, details, k) ==
    /\ cont' = [cont EXCEPT ![p] = k]
    /\ uuids' = uuids + 1
    /\ UNCHANGED <<agent_memory, agent_logs, memoryStore, hist>>
    /\ \E t \in ClockReadings :
       LET entry == LogEntry(uuids + 1, agent, action, details, t)
       IN /\ now' = t
          /\ frame' = [frame EXCEPT ![p] = [NoFrame EXCEPT !.fn = "log", !.data = entry]]
          /\ IF hasPg
             THEN /\ pc' = [pc EXCEPT ![p] = "log_insert"]
                  /\ UNCHANGED <<logsStore, ret>>
             ELSE /\ logsStore' = LogUnshift(logsStore, entry)
                  /\ ret' = [ret EXCEPT ![p] = LogReturn]
                  /\ pc' = [pc EXCEPT ![p] = k]

\* await sql`INSERT INTO agent_logs ...` completes, or raises and the catch block puts
\* an entry with a new id and a new time at the head of logsStore
LogInsert(p) ==
    /\ pc[p] = "log_insert"
    /\ UNCHANGED <<setup, agent_memory, memoryStore, cont, sess, calls, sessions, hist>>
    /\ pc' = [pc EXCEPT ![p] = cont[p]]
    /\ \/ /\ agent_logs' = agent_logs \cup {frame[p].data}
          /\ ret' = [ret EXCEPT ![p] = LogReturn]
          /\ UNCHANGED <<logsStore, now, uuids, frame>>
       \/ \E t \in ClockReadings :
          LET e == frame[p].data
          IN /\ logsStore' = LogUnshift(logsStore, LogEntry(uuids + 1, e.agent, e.action, e.details, t))
             /\ uuids' = uuids + 1
             /\ now' = t
             /\ frame' = [frame EXCEPT ![p].caught = TRUE]
             /\ ret' = [ret EXCEPT ![p] = LogCatchReturn]
             /\ UNCHANGED agent_logs

(***************************************************************************)
(* lib/actions.ts: classifierAgent.                                        *)
(***************************************************************************)
Formats == {"JSON", "Email", "PDF", "PlainText"}

\* confidence is kept in hundredths: 50 stands for 0.5
FallbackConfidence == 50

\* the objects generateObject may resolve to for the classifier's schema
InferIntents == {"Invoice", "Other"}
InferConfidences == {90}
ClsObjects ==
    {[format |-> f, intent |-> i, confidence |-> c, reasoning |-> "model"] :
        f \in Formats, i \in InferIntents, c \in InferConfidences}

NoCls == [format |-> "none", intent |-> "none", confidence |-> 0, reasoning |-> "none"]

\* mutant: the marker rule is tried before the parse rule
FallbackClassification_markersFirst(content) ==
    IF \/ includes(toLowerCase(content), "from:")
       \/ includes(toLowerCase(content), "subject:")
    THEN [format |-> "Email", intent |-> "Query"]
    ELSE IF JSONparse(content).ok
         THEN [format |-> "JSON", intent |-> "Query"]
         ELSE [format |-> "PlainText", intent |-> "Other"]

\* mutant: the markers are looked for without toLowerCase
FallbackClassification_caseSensitive(content) ==
    IF JSONparse(content).ok
    THEN [format |-> "JSON", intent |-> "Query"]
    ELSE IF includes(content, "from:") \/ includes(content, "subject:")
         THEN [format |-> "Email", intent |-> "Query"]
         ELSE [format |-> "PlainText", intent |-> "Other"]

\* the catch block's rule cascade: JSON.parse first, then the markers, else PlainText
FallbackClassification(content) ==
    IF JSONparse(content).ok
    THEN [format |-> "JSON", intent |-> "Query"]
    ELSE IF \/ includes(toLowerCase(content), "from:")
            \/ includes(toLowerCase(content), "subject:")
         THEN [format |-> "Email", intent |-> "Query"]
         ELSE [format |-> "PlainText", intent |-> "Other"]

\* the object the catch block returns
FallbackResult(content) ==
    [format |-> FallbackClassification(content).format,
     intent |-> FallbackClassification(content).intent,
     confidence |-> FallbackConfidence,
     reasoning |-> "Fallback classification due to AI service unavailability"]

NoOutcome == [kind |-> "none", message |-> <<>>, format |-> "none", intent |-> "none",
              routed_to |-> "none", memory_id |-> 0]

NoSess ==
    [content |-> <<>>, memoryId |-> 0, inferOk |-> FALSE, object |-> NoCls,
     classification |-> NoCls, jsonData |-> [kind |-> "none", value |-> <<>>],
     agents |-> {}, agentPath |-> "none", result |-> EmptyRec, outcome |-> NoOutcome]

\* processInput rejects: its catch block wraps the error it caught
\* (throw new Error(`Failed to process input: ${error.message}`))
Fail(p, s, message) ==
    /\ sess' = [sess EXCEPT ![p] =
                  [s EXCEPT !.outcome = [NoOutcome EXCEPT !.kind = "raised",
                                                           !.message = <<"Failed to process input: ">> \o message]]]
    /\ pc' = [pc EXCEPT ![p] = "done"]

StorageError == <<"storage error">>

\* the catch block of classifierAgent up to its await of logAgentActivity
ClsFallback(p) ==
    LET fb == FallbackClassification(sess[p].content)
    IN CallLog(p, "Classifier", "Fallback Classification",
               <<"Used fallback classification: ", fb.format, fb.intent>>, "cls_fb_logged")

\* processInput(content) is called with one of the given contents: a session id is generated, classifierAgent is
\* called and awaits generateObject
PiStart(p, contents) ==
    /\ pc[p] = "idle"
    /\ sessions < MaxSessions
    /\ sessions' = sessions + 1
    /\ \E content \in contents :
         sess' = [sess EXCEPT ![p] = [NoSess EXCEPT !.content = content, !.memoryId = sessions + 1]]
    /\ pc' = [pc EXCEPT ![p] = "cls_infer"]
    /\ UNCHANGED <<setup, storeVars, cont, frame, ret, calls, hist>>

\* the classifier's generateObject resolves to a schema-valid object, or fails
\* (provider error, timeout, schema-invalid response)
ClsInfer(p) ==
    /\ pc[p] = "cls_infer"
    /\ UNCHANGED <<setup, calls, sessions>>
    /\ \/ \E o \in ClsObjects :
          /\ sess' = [sess EXCEPT ![p].inferOk = TRUE, ![p].object = o]
          /\ CallLog(p, "Classifier", "Classification",
                     <<"Detected ", o.format, o.intent, ToString(o.confidence)>>, "cls_logged")
       \/ /\ sess' = [sess EXCEPT ![p].inferOk = FALSE]
          /\ ClsFallback(p)

\* the primary path's await of logAgentActivity resumes: the object is returned
\* (a raise would be caught by the classifier's catch block)
ClsLogged(p) ==
    /\ pc[p] = "cls_logged"
    /\ UNCHANGED <<setup, calls, sessions>>
    /\ IF ret[p].status = "raised"
       THEN /\ ClsFallback(p)
            /\ UNCHANGED sess
       ELSE /\ sess' = [sess EXCEPT ![p].classification = sess[p].object]
            /\ pc' = [pc EXCEPT ![p] = "pi_classified"]
            /\ UNCHANGED <<storeVars, cont, frame, ret, hist>>

\* the catch block's await of logAgentActivity resumes: the fallback result is returned
\* (a raise would leave classifierAgent and reach processInput's catch block)
ClsFbLogged(p) ==
    /\ pc[p] = "cls_fb_logged"
    /\ UNCHANGED <<setup, storeVars, cont, frame, ret, calls, sessions, hist>>
    /\ IF ret[p].status = "raised"
       THEN Fail(p, sess[p], StorageError)
       ELSE /\ sess' = [sess EXCEPT ![p].classification = FallbackResult(sess[p].content)]
            /\ pc' = [pc EXCEPT ![p] = "pi_classified"]

(***************************************************************************)
(* lib/actions.ts: jsonAgent, emailAgent, processInput.                    *)
(***************************************************************************)
\* the objects generateObject may resolve to for the JSON agent's schema
JsonObjects ==
    {[extractedFields |-> [kind |-> "object", value |-> <<"{}">>],
      missingFields |-> m,
      anomalies |-> <<>>,
      standardizedFormat |-> [kind |-> "object", value |-> <<"{}">>]] : m \in {<<>>, <<"id">>}}

\* the objects generateObject may resolve to for the Email agent's schema
EmailObjects ==
    {[sender |-> <<"x">>, recipients |-> <<>>, subject |-> <<"x">>, intent |-> "Inquiry",
      urgency |-> "low", keyPoints |-> <<"point">>, crmFormat |-> <<"crm">>]}

\* Object.keys(v).length for a parsed JSON value other than null
ObjectKeysLength(v) == IF v.kind = "string" THEN Len(v.value) - 2 ELSE 0

\* the Email agent's catch block: sender, subject and the fixed fields
EmailFallbackResult(content) ==
    LET lines == split(content)
        fromLine == findLine(lines, "from:")
        subjectLine == findLine(lines, "subject:")
        sender == IF fromLine.found THEN trim(Tail(fromLine.line)) ELSE <<"unknown@example.com">>
    IN [sender |-> sender,
        recipients |-> <<"support@company.com">>,
        subject |-> IF subjectLine.found THEN trim(Tail(subjectLine.line)) ELSE <<"No subject">>,
        intent |-> "Other",
        urgency |-> "medium",
        keyPoints |-> <<"Email content analysis">>,
        crmFormat |-> sender \o <<"General", "medium", "Email processed with fallback method">>]

\* what the JSON agent saves: { agent: "JSON", extractedFields, standardizedFormat }
JsonRecord(o) ==
    [agent |-> "JSON", extractedFields |-> o.extractedFields,
     standardizedFormat |-> o.standardizedFormat]

\* what the Email agent saves: { agent: "Email", sender, subject, intent, urgency, keyPoints }
EmailRecord(o) ==
    [agent |-> "Email", sender |-> o.sender, subject |-> o.subject, intent |-> o.intent,
     urgency |-> o.urgency, keyPoints |-> o.keyPoints]

\* mutant: every format that is not JSON goes to the Email agent
Route_elseEmail(format) ==
    IF format = "JSON" THEN "JSONAgent" ELSE "EmailAgent"

\* the dispatch of processInput: the agent a classified format is routed to
Route(format) ==
    IF format = "JSON" THEN "JSONAgent"
    ELSE IF format = "Email" \/ format = "PlainText" THEN "EmailAgent"
    ELSE "none"

\* processInput's await of classifierAgent resumes: the classification is saved under
\* the session id with the time of the write
PiClassified(p) ==
    /\ pc[p] = "pi_classified"
    /\ UNCHANGED <<setup, sess, calls, sessions>>
    /\ \E t \in ClockReadings :
       CallSave(p, sess[p].memoryId,
                [timestamp |-> t,
                 classification |-> [format |-> sess[p].classification.format,
                                     intent |-> sess[p].classification.intent,
                                     confidence |-> sess[p].classification.confidence]],
                "pi_saved", t)

\* the catch block of jsonAgent: JSON.parse again, then the fallback result is saved
JsonFallback(p, s) ==
    /\ sess' = [sess EXCEPT ![p] = [s EXCEPT !.agentPath = "fallback"]]
    /\ CallSave(p, s.memoryId,
                JsonRecord([extractedFields |-> s.jsonData, standardizedFormat |-> s.jsonData]),
                "jfb_saved", now)

\* the catch block of emailAgent up to its await of saveToMemory
EmailFallback(p, s) ==
    /\ sess' = [sess EXCEPT ![p] = [s EXCEPT !.agentPath = "fallback",
                                             !.result = EmailFallbackResult(s.content)]]
    /\ CallSave(p, s.memoryId, EmailRecord(EmailFallbackResult(s.content)), "efb_saved", now)

\* processInput's await of the classification write resumes: dispatch on the format.
\* jsonAgent parses the content (a SyntaxError makes both its try block and its catch
\* block throw "Invalid JSON format") and awaits generateObject; emailAgent awaits
\* generateObject; any other format throws.
PiSaved(p) ==
    LET s == sess[p]
        parsed == JSONparse(s.content)
    IN /\ pc[p] = "pi_saved"
       /\ UNCHANGED <<setup, storeVars, cont, frame, ret, calls, sessions, hist>>
       /\ IF ret[p].status = "raised"
          THEN Fail(p, s, StorageError)
          ELSE IF Route(s.classification.format) = "JSONAgent"
          THEN IF parsed.ok
               THEN /\ sess' = [sess EXCEPT ![p].agents = @ \cup {"JSON"},
                                            ![p].agentPath = "primary",
                                            ![p].jsonData = [kind |-> parsed.kind, value |-> parsed.value]]
                    /\ pc' = [pc EXCEPT ![p] = "json_infer"]
               ELSE Fail(p, [s EXCEPT !.agents = @ \cup {"JSON"}, !.agentPath = "fallback"],
                         <<"Invalid JSON format">>)
          ELSE IF Route(s.classification.format) = "EmailAgent"
          THEN /\ sess' = [sess EXCEPT ![p].agents = @ \cup {"Email"}, ![p].agentPath = "primary"]
               /\ pc' = [pc EXCEPT ![p] = "email_infer"]
          ELSE Fail(p, s, <<"Unsupported format: ", s.classification.format>>)

\* the JSON agent's generateObject resolves and the result is saved, or fails and the
\* catch block runs
JsonInfer(p) ==
    /\ pc[p] = "json_infer"
    /\ UNCHANGED <<setup, calls, sessions>>
    /\ \/ \E o \in JsonObjects :
          /\ sess' = [sess EXCEPT ![p].result = o]
          /\ CallSave(p, sess[p].memoryId, JsonRecord(o), "json_saved", now)
       \/ JsonFallback(p, sess[p])

\* the primary path's await of saveToMemory resumes: the activity is logged
JsonSaved(p) ==
    LET o == sess[p].result
    IN /\ pc[p] = "json_saved"
       /\ UNCHANGED <<setup, calls, sessions>>
       /\ IF ret[p].status = "raised"
          THEN JsonFallback(p, sess[p])
          ELSE /\ CallLog(p, "JSON", "Processing",
                          <<"Extracted ", ToString(ObjectKeysLength(o.extractedFields)),
                            ToString(Len(o.missingFields)), ToString(Len(o.anomalies))>>,
                          "json_logged")
               /\ UNCHANGED sess

\* the primary path's await of logAgentActivity resumes: the object is returned
JsonLogged(p) ==
    /\ pc[p] = "json_logged"
    /\ UNCHANGED <<setup, calls, sessions>>
    /\ IF ret[p].status = "raised"
       THEN JsonFallback(p, sess[p])
       ELSE /\ pc' = [pc EXCEPT ![p] = "pi_agent_done"]
            /\ UNCHANGED <<storeVars, cont, frame, ret, sess, hist>>

\* the catch block's await of saveToMemory resumes: the details of the log entry are
\* built with Object.keys(jsonData), which throws for null, and the activity is logged
JfbSaved(p) ==
    LET s == sess[p]
    IN /\ pc[p] = "jfb_saved"
       /\ UNCHANGED <<setup, calls, sessions>>
       /\ IF ret[p].status = "raised"
          THEN /\ Fail(p, s, StorageError)
               /\ UNCHANGED <<storeVars, cont, frame, ret, hist>>
          ELSE IF ObjectKeysThrows(s.jsonData)
          THEN /\ Fail(p, s, <<"Cannot convert undefined or null to object">>)
               /\ UNCHANGED <<storeVars, cont, frame, ret, hist>>
          ELSE /\ CallLog(p, "JSON", "Fallback Processing",
                          <<"Used fallback processing for JSON with ",
                            ToString(ObjectKeysLength(s.jsonData))>>, "jfb_logged")
               /\ sess' = [sess EXCEPT ![p].result =
                             [extractedFields |-> s.jsonData, missingFields |-> <<>>,
                              anomalies |-> <<>>, standardizedFormat |-> s.jsonData]]

\* an agent's catch-block await of logAgentActivity resumes: the fallback result is returned
FallbackLogged(p) ==
    /\ pc[p] \in {"jfb_logged", "efb_logged"}
    /\ UNCHANGED <<setup, storeVars, cont, frame, ret, calls, sessions, hist>>
    /\ IF ret[p].status = "raised"
       THEN Fail(p, sess[p], StorageError)
       ELSE /\ pc' = [pc EXCEPT ![p] = "pi_agent_done"]
            /\ UNCHANGED sess

\* the Email agent's generateObject resolves and the result is saved, or fails and the
\* catch block runs
EmailInfer(p) ==
    /\ pc[p] = "email_infer"
    /\ UNCHANGED <<setup, calls, sessions>>
    /\ \/ \E o \in EmailObjects :
          /\ sess' = [sess EXCEPT ![p].result = o]
          /\ CallSave(p, sess[p].memoryId, EmailRecord(o), "email_saved", now)
       \/ EmailFallback(p, sess[p])

\* the primary path's await of saveToMemory resumes: the activity is logged
EmailSaved(p) ==
    LET o == sess[p].result
    IN /\ pc[p] = "email_saved"
       /\ UNCHANGED <<setup, calls, sessions>>
       /\ IF ret[p].status = "raised"
          THEN EmailFallback(p, sess[p])
          ELSE /\ CallLog(p, "Email", "Processing",
                          <<"Processed email from ">> \o o.sender \o o.subject
                              \o <<o.intent, o.urgency>>, "email_logged")
               /\ UNCHANGED sess

\* the primary path's await of logAgentActivity resumes: the object is returned
EmailLogged(p) ==
    /\ pc[p] = "email_logged"
    /\ UNCHANGED <<setup, calls, sessions>>
    /\ IF ret[p].status = "raised"
       THEN EmailFallback(p, sess[p])
       ELSE /\ pc' = [pc EXCEPT ![p] = "pi_agent_done"]
            /\ UNCHANGED <<storeVars, cont, frame, ret, sess, hist>>

\* the catch block's await of saveToMemory resumes: the activity is logged
EfbSaved(p) ==
    /\ pc[p] = "efb_saved"
    /\ UNCHANGED <<setup, calls, sessions>>
    /\ IF ret[p].status = "raised"
       THEN /\ Fail(p, sess[p], StorageError)
            /\ UNCHANGED <<storeVars, cont, frame, ret, hist>>
       ELSE /\ CallLog(p, "Email", "Fallback Processing",
                       <<"Used fallback processing for email from ">> \o sess[p].result.sender,
                       "efb_logged")
            /\ UNCHANGED sess

\* processInput's await of the agent resumes: the result tuple is returned
PiAgentDone(p) ==
    LET s == sess[p]
    IN /\ pc[p] = "pi_agent_done"
       /\ sess' = [sess EXCEPT ![p].outcome =
                     [kind |-> "returned", message |-> <<>>,
                      format |-> s.classification.format, intent |-> s.classification.intent,
                      routed_to |-> Route(s.classification.format), memory_id |-> s.memoryId]]
       /\ pc' = [pc EXCEPT ![p] = "done"]
       /\ UNCHANGED <<setup, storeVars, cont, frame, ret, calls, sessions, hist>>

\* after processInput has returned or raised, its caller reads the session record
ReadSession(p) ==
    /\ pc[p] = "done"
    /\ CallGet(p, sess[p].memoryId, "read_ret")
    /\ UNCHANGED <<setup, sess, calls, sessions>>

(***************************************************************************)
(* lib/memory.ts: getAllMemory. The rows are kept as a function of the id; *)
(* their order is not represented.                                         *)
(***************************************************************************)
\* data.created_at is truthy
HasCreatedAt(data) == "created_at" \in DOMAIN data /\ data.created_at # Undefined

\* SELECT id, data, created_at FROM agent_memory
SelectAll(table) ==
    [id \in DOMAIN table |-> [data |-> table[id].data, created_at |-> table[id].created_at]]

\* Object.entries(memoryStore).map(([id, data]) => ({ id, data,
\*     created_at: data.created_at || new Date().toISOString() })) at clock reading t
MemoryRows(store, t) ==
    [id \in DOMAIN store |->
        [data |-> store[id],
         created_at |-> IF HasCreatedAt(store[id]) THEN store[id].created_at ELSE t]]

\* the clock readings the map over memoryStore may take (none when every record holds
\* a created_at)
RowsClock(store) ==
    IF \A id \in DOMAIN store : HasCreatedAt(store[id]) THEN {now} ELSE ClockReadings

\* the value getAllMemory returns
AllReturn(rows) == [status |-> "ok", success |-> TRUE, found |-> TRUE, data |-> rows]

\* the call getAllMemory() by caller p, returning to label k
CallGetAll(p, k) ==
    /\ frame' = [frame EXCEPT ![p] = [NoFrame EXCEPT !.fn = "getall"]]
    /\ cont' = [cont EXCEPT ![p] = k]
    /\ UNCHANGED <<agent_memory, agent_logs, memoryStore, logsStore, uuids, hist>>
    /\ IF hasPg
       THEN /\ pc' = [pc EXCEPT ![p] = "all_select"]
            /\ UNCHANGED <<ret, now>>
       ELSE \E t \in RowsClock(memoryStore) :
            /\ ret' = [ret EXCEPT ![p] = AllReturn(MemoryRows(memoryStore, t))]
            /\ now' = t
            /\ pc' = [pc EXCEPT ![p] = k]

\* await sql`SELECT id, data, created_at ...` of getAllMemory completes, or raises and
\* the catch block answers from memoryStore
AllSelect(p) ==
    /\ pc[p] = "all_select"
    /\ UNCHANGED <<setup, agent_memory, agent_logs, memoryStore, logsStore, uuids, cont, sess,
                   calls, sessions, hist>>
    /\ pc' = [pc EXCEPT ![p] = cont[p]]
    /\ \/ /\ ret' = [ret EXCEPT ![p] = AllReturn(SelectAll(agent_memory))]
          /\ UNCHANGED <<frame, now>>
       \/ \E t \in RowsClock(memoryStore) :
          /\ ret' = [ret EXCEPT ![p] = AllReturn(MemoryRows(memoryStore, t))]
          /\ now' = t
          /\ frame' = [frame EXCEPT ![p].caught = TRUE]

ApiGetAll(p) ==
    /\ pc[p] = "idle"
    /\ calls < MaxCalls
    /\ calls' = calls + 1
    /\ CallGetAll(p, "api_ret")
    /\ UNCHANGED <<setup, sess, sessions>>

(***************************************************************************)
(* Callers of the memory manager's API (the memory route, tests).          *)
(***************************************************************************)
AllIdle == \A q \in Procs : pc[q] = "idle"

ApiSave(p, id, data) ==
    /\ pc[p] = "idle"
    /\ calls < MaxCalls
    /\ calls' = calls + 1
    /\ CallSave(p, id, data, "api_ret", now)
    /\ UNCHANGED <<setup, sess, sessions>>

ApiGet(p, id) ==
    /\ pc[p] = "idle"
    /\ calls < MaxCalls
    /\ calls' = calls + 1
    /\ CallGet(p, id, "api_ret")
    /\ UNCHANGED <<setup, sess, sessions>>

\* the caller's await resumes with the call's value
ApiReturn(p) ==
    /\ pc[p] = "api_ret"
    /\ pc' = [pc EXCEPT ![p] = "idle"]
    /\ UNCHANGED <<setup, storeVars, cont, frame, ret, sess, calls, sessions, hist>>

Init ==
    /\ hasPg \in BOOLEAN
    /\ agent_memory = EmptyRec
    /\ agent_logs = {}
    /\ memoryStore = EmptyRec
    /\ logsStore = <<>>
    /\ now = 1
    /\ uuids = 0
    /\ pc = [p \in Procs |-> "idle"]
    /\ cont = [p \in Procs |-> "idle"]
    /\ frame = [p \in Procs |-> NoFrame]
    /\ ret = [p \in Procs |-> NoRet]
    /\ sess = [p \in Procs |-> NoSess]
    /\ calls = 0
    /\ sessions = 0
    /\ hist = [id \in Ids |-> <<>>]
    /\ initialized = FALSE
    /\ schema = (IF hasPg THEN Tables ELSE {})
    /\ inits = 0

\* concurrent callers of the memory manager
Next ==
    \E p \in Procs :
        \/ \E id \in Ids, data \in Partials : ApiSave(p, id, data)
        \/ \E id \in Ids : ApiGet(p, id)
        \/ SaveSelect(p)
        \/ SaveWrite(p)
        \/ GetSelect(p)
        \/ ApiReturn(p)

Spec == Init /\ [][Next]_vars

\* one caller, one call at a time
NextSeq ==
    \/ \E id \in Ids, data \in Partials : ApiSave(1, id, data)
    \/ \E id \in Ids : ApiGet(1, id)
    \/ ApiGetAll(1)
    \/ SaveSelect(1)
    \/ SaveWrite(1)
    \/ GetSelect(1)
    \/ AllSelect(1)
    \/ ApiReturn(1)

SpecSeq == Init /\ [][NextSeq]_vars

\* the contents given to processInput in the pipeline specification
PipeContents ==
    { <<"{}">>, <<"null">>, <<"1">>, <<Q, "From:", Q>>, <<"{}", "x">>,
      <<"From:", "x", NL>>, <<"x", "SUBJECT:">>, <<"x">> }

\* one processInput session at a time, followed by a read of its record
NextPipe ==
    \/ PiStart(1, PipeContents)
    \/ ClsInfer(1)
    \/ ClsLogged(1)
    \/ ClsFbLogged(1)
    \/ PiClassified(1)
    \/ PiSaved(1)
    \/ JsonInfer(1)
    \/ JsonSaved(1)
    \/ JsonLogged(1)
    \/ JfbSaved(1)
    \/ EmailInfer(1)
    \/ EmailSaved(1)
    \/ EmailLogged(1)
    \/ EfbSaved(1)
    \/ FallbackLogged(1)
    \/ PiAgentDone(1)
    \/ ReadSession(1)
    \/ SaveSelect(1)
    \/ SaveWrite(1)
    \/ LogInsert(1)
    \/ GetSelect(1)

SpecPipe == Init /\ [][NextPipe]_vars

\* classifierAgent alone, on every content up to MaxLen tokens
NextCls ==
    \/ PiStart(1, AllContents)
    \/ ClsInfer(1)
    \/ ClsLogged(1)
    \/ ClsFbLogged(1)
    \/ LogInsert(1)

SpecCls == Init /\ [][NextCls]_vars

(***************************************************************************)
(* Claims about the shared memory manager.                                 *)
(***************************************************************************)
\* a key of a partial mapping whose value a JSON document can carry and that is not
\* the creation stamp
PlainKeys(data) == {k \in DOMAIN data : k # "created_at" /\ data[k] # Undefined}

\* caller p has just been handed the value of a getFromMemory / saveToMemory call
Returned(p, fn) == pc[p] = "api_ret" /\ frame[p].fn = fn

\* C1: saveToMemory never raises and reports success, and when the durable path raised
\* the fallback record of id holds every key of the partial mapping with the partial
\* mapping's value.
C1_FallbackHoldsPartial ==
    \A p \in Procs :
        Returned(p, "save") =>
            /\ ret[p].status = "ok"
            /\ ret[p].success
            /\ frame[p].caught =>
                 /\ frame[p].id \in DOMAIN memoryStore
                 /\ \A k \in DOMAIN frame[p].data :
                      /\ k \in DOMAIN memoryStore[frame[p].id]
                      /\ memoryStore[frame[p].id][k] = frame[p].data[k]

\* C2: a read that follows a save that reported success returns every key of the last
\* partial mapping saved under that id with that mapping's value, whatever the durable
\* backend did during the write and the read.
C2_ReadReturnsLastWrite ==
    \A p \in Procs :
        (Returned(p, "get") /\ hist[frame[p].id] # <<>>) =>
            LET partial == hist[frame[p].id][Len(hist[frame[p].id])]
            IN \A k \in PlainKeys(partial) :
                 /\ ret[p].found
                 /\ k \in DOMAIN ret[p].data
                 /\ ret[p].data[k] = partial[k]

\* C3: after exactly two saves p1 then p2 under one id, the record read back maps every
\* key of p2 to p2's value and every key only in p1 to p1's value.
C3_MergeLaterWins ==
    \A p \in Procs :
        (Returned(p, "get") /\ Len(hist[frame[p].id]) = 2) =>
            LET p1 == hist[frame[p].id][1]
                p2 == hist[frame[p].id][2]
            IN /\ \A k \in PlainKeys(p2) :
                    ret[p].found /\ k \in DOMAIN ret[p].data /\ ret[p].data[k] = p2[k]
               /\ \A k \in PlainKeys(p1) \ DOMAIN p2 :
                    ret[p].found /\ k \in DOMAIN ret[p].data /\ ret[p].data[k] = p1[k]

\* the keys the stores hold for id, in the durable row or in the fallback record
StoredKeys(id) ==
    (IF id \in DOMAIN agent_memory THEN DOMAIN agent_memory[id].data ELSE {})
        \cup (IF id \in DOMAIN memoryStore THEN DOMAIN memoryStore[id] ELSE {})

\* C4: a key once written to a session record by a save that reported success is still
\* present in the record, in the durable row or in the fallback record, unless a save
\* supplied it as undefined (no save deletes a key it was not given).
C4_KeysNeverDeleted ==
    \A id \in Ids :
        \A i \in 1..Len(hist[id]) :
            \A k \in DOMAIN hist[id][i] :
                (\A j \in 1..Len(hist[id]) :
                    k \in DOMAIN hist[id][j] => hist[id][j][k] # Undefined)
                    => k \in StoredKeys(id)

(***************************************************************************)
(* Claims about the classifier and the orchestrator.                       *)
(***************************************************************************)
Wrapped(message) == <<"Failed to process input: ">> \o message

Triple(c) == [format |-> c.format, intent |-> c.intent, confidence |-> c.confidence]

\* classifierAgent has returned to processInput after its inference failed
FellBack(p) == pc[p] = "pi_classified" /\ ~sess[p].inferOk

\* the tokens that spell "from:" or "subject:" in some letter case
MarkerTokens == {"From:", "SUBJECT:"}

\* C5: processInput raises only for content dispatched to the JSON agent that does not
\* parse (Invalid JSON format) or for a format with no routing rule (Unsupported
\* format); in every other case it returns a result tuple.
C5_OnlyTwoFailures ==
    \A p \in Procs :
        LET s == sess[p]
        IN /\ pc[p] = "done" => s.outcome.kind \in {"returned", "raised"}
           /\ s.outcome.kind = "raised" =>
                \/ /\ s.classification.format = "JSON"
                   /\ ~JSONparse(s.content).ok
                   /\ s.outcome.message = Wrapped(<<"Invalid JSON format">>)
                \/ /\ s.classification.format \notin {"JSON", "Email", "PlainText"}
                   /\ s.outcome.message = Wrapped(<<"Unsupported format: ", s.classification.format>>)

\* C6: classifierAgent never raises and always hands processInput a classification
\* (a format of the enum, an intent, a confidence between 0 and 1), whatever the
\* inference and the storage did.
C6_ClassifierAlwaysReturns ==
    \A p \in Procs :
        /\ sess[p].outcome.kind # "raised"
        /\ pc[p] \in {"idle", "cls_infer", "log_insert", "cls_logged", "cls_fb_logged", "pi_classified"}
        /\ pc[p] = "pi_classified" =>
             /\ sess[p].classification.format \in Formats
             /\ sess[p].classification.intent \in {"Invoice", "RFQ", "Complaint", "Regulation", "Query", "Other"}
             /\ sess[p].classification.confidence \in 0..100

\* witness of C6: the classifier returned although inference failed and the durable log
\* write raised
C6_Witness ==
    \E p \in Procs : FellBack(p) /\ frame[p].fn = "log" /\ frame[p].caught

\* C7: when inference fails, content that parses as JSON is classified JSON / Query with
\* confidence 0.5, whether or not it holds a "from:" or "subject:" marker.
C7_FallbackJsonFirst ==
    \A p \in Procs :
        (FellBack(p) /\ JSONparse(sess[p].content).ok) =>
            /\ sess[p].classification.format = "JSON"
            /\ sess[p].classification.intent = "Query"
            /\ sess[p].classification.confidence = 50

\* witness of C7: a JSON string that holds a marker was classified on the fallback path
C7_Witness ==
    \E p \in Procs :
        /\ FellBack(p)
        /\ sess[p].content = <<Q, "From:", Q>>
        /\ sess[p].classification.format = "JSON"

\* some line of the content begins with a marker
HasMarkerLine(content) ==
    \E i \in 1..Len(split(content)) :
        Len(split(content)[i]) > 0 /\ split(content)[i][1] \in MarkerTokens

\* the content holds a marker anywhere
HasMarker(content) == \E i \in 1..Len(content) : content[i] \in MarkerTokens

\* C8 as stated: when inference fails and the content does not parse as JSON, the result
\* is Email / Query if some line begins with a marker and PlainText / Other if no line
\* does, with confidence 0.5.
C8_MarkerAtLineStart ==
    \A p \in Procs :
        (FellBack(p) /\ ~JSONparse(sess[p].content).ok) =>
            /\ sess[p].classification.confidence = 50
            /\ IF HasMarkerLine(sess[p].content)
               THEN sess[p].classification.format = "Email" /\ sess[p].classification.intent = "Query"
               ELSE sess[p].classification.format = "PlainText" /\ sess[p].classification.intent = "Other"

\* C8 as amended: when inference fails and the content does not parse as JSON, the result
\* is Email / Query if the content holds "from:" or "subject:" anywhere, in any letter
\* case, and PlainText / Other if it holds neither, with confidence 0.5.
C8_MarkerAnywhere ==
    \A p \in Procs :
        (FellBack(p) /\ ~JSONparse(sess[p].content).ok) =>
            /\ sess[p].classification.confidence = 50
            /\ IF HasMarker(sess[p].content)
               THEN sess[p].classification.format = "Email" /\ sess[p].classification.intent = "Query"
               ELSE sess[p].classification.format = "PlainText" /\ sess[p].classification.intent = "Other"

\* witness of C8: a marker that begins no line made the fallback answer Email
C8_Witness ==
    \E p \in Procs :
        /\ FellBack(p)
        /\ ~JSONparse(sess[p].content).ok
        /\ HasMarker(sess[p].content)
        /\ ~HasMarkerLine(sess[p].content)
        /\ sess[p].classification.format = "Email"

\* the classification written by session p is held by the durable row or by the
\* fallback record of its id
ClassificationStored(p) ==
    LET id == sess[p].memoryId
        c == Triple(sess[p].classification)
    IN \/ /\ id \in DOMAIN agent_memory
          /\ "classification" \in DOMAIN agent_memory[id].data
          /\ agent_memory[id].data.classification = c
       \/ /\ id \in DOMAIN memoryStore
          /\ "classification" \in DOMAIN memoryStore[id]
          /\ memoryStore[id].classification = c

C10_MalformedJsonKeepsClassification ==
    \A p \in Procs :
        (/\ pc[p] = "read_ret"
         /\ sess[p].classification.format = "JSON"
         /\ ~JSONparse(sess[p].content).ok) =>
            /\ sess[p].outcome.kind = "raised"
            /\ sess[p].outcome.message = Wrapped(<<"Invalid JSON format">>)
            /\ ret[p].found
            /\ "classification" \in DOMAIN ret[p].data
            /\ ret[p].data.classification = Triple(sess[p].classification)
            /\ (DOMAIN ret[p].data) \cap {"agent", "extractedFields", "standardizedFormat"} = {}

\* the keys of the extraction write of the agent that handles format f
ExtractionKeys(f) ==
    IF f = "JSON" THEN {"agent", "extractedFields", "standardizedFormat"}
    ELSE {"agent", "sender", "subject", "intent", "urgency", "keyPoints"}

\* C11: within one session the classification write has completed before an extraction
\* write starts, and a read of the session id after processInput returned gives a
\* record that holds the classification and the agent's extraction keys.
C11_ClassificationThenExtraction ==
    \A p \in Procs :
        LET s == sess[p]
        IN /\ (frame[p].fn = "save" /\ "agent" \in DOMAIN frame[p].data /\ s.memoryId \in Ids) =>
                /\ Len(hist[s.memoryId]) >= 1
                /\ "classification" \in DOMAIN hist[s.memoryId][1]
           /\ (pc[p] = "read_ret" /\ s.outcome.kind = "returned") =>
                /\ ret[p].found
                /\ "classification" \in DOMAIN ret[p].data
                /\ ret[p].data.classification = Triple(s.classification)
                /\ ExtractionKeys(s.classification.format) \subseteq DOMAIN ret[p].data

(***************************************************************************)
(* Two processInput sessions running concurrently.                         *)
(***************************************************************************)
\* the content each of the two sessions is given
ConcContents(p) == IF p = 1 THEN {<<"{}">>} ELSE {<<"From:", "1">>}

\* the classifier's inference answers JSON / Invoice in session 1 and fails in session 2
ConcInference(p) ==
    IF p = 1
    THEN sess'[p].inferOk /\ sess'[p].object.format = "JSON" /\ sess'[p].object.intent = "Invoice"
    ELSE ~sess'[p].inferOk

\* the whole run fits in one reading of the clock
SameInstant == now' = now

\* the steps of session p
SessionStep(p) ==
    \/ PiStart(p, ConcContents(p)) /\ SameInstant
    \/ ClsInfer(p) /\ ConcInference(p) /\ SameInstant
    \/ ClsLogged(p) /\ SameInstant
    \/ ClsFbLogged(p) /\ SameInstant
    \/ PiClassified(p) /\ SameInstant
    \/ PiSaved(p) /\ SameInstant
    \/ JsonInfer(p) /\ SameInstant
    \/ JsonSaved(p) /\ SameInstant
    \/ JsonLogged(p) /\ SameInstant
    \/ JfbSaved(p) /\ SameInstant
    \/ EmailInfer(p) /\ SameInstant
    \/ EmailSaved(p) /\ SameInstant
    \/ EmailLogged(p) /\ SameInstant
    \/ EfbSaved(p) /\ SameInstant
    \/ FallbackLogged(p) /\ SameInstant
    \/ PiAgentDone(p) /\ SameInstant
    \/ SaveSelect(p) /\ SameInstant
    \/ SaveWrite(p) /\ SameInstant
    \/ LogInsert(p) /\ SameInstant

\* two sessions, interleaved at every suspension point
NextConc == SessionStep(1) \/ SessionStep(2)

SpecConc == Init /\ [][NextConc]_vars

\* rec holds nothing but what session p writes under its id
OwnRecord(p, rec) ==
    LET s == sess[p]
    IN /\ DOMAIN rec \subseteq {"created_at", "timestamp", "classification"}
                                   \cup ExtractionKeys(s.classification.format)
       /\ "classification" \in DOMAIN rec => rec.classification = Triple(s.classification)
       /\ "agent" \in DOMAIN rec =>
            rec.agent = (IF s.classification.format = "JSON" THEN "JSON" ELSE "Email")
       /\ "extractedFields" \in DOMAIN rec =>
            \/ rec.extractedFields = s.jsonData
            \/ \E o \in JsonObjects : rec.extractedFields = o.extractedFields
       /\ "sender" \in DOMAIN rec =>
            \/ rec.sender = EmailFallbackResult(s.content).sender
            \/ \E o \in EmailObjects : rec.sender = o.sender

\* C12: two concurrent sessions with distinct ids never affect each other's record: in
\* every state, whatever a read of a session's id returns (the durable row, or the
\* fallback record) holds only keys and values written by that session, and an id no
\* session owns has no record.
C12_SessionsIsolated ==
    \A id \in Ids :
        LET rows == {SelectData(agent_memory, id), MemoryGet(memoryStore, id)}
        IN IF \E p \in Procs : sess[p].memoryId = id
           THEN \A p \in Procs : sess[p].memoryId = id =>
                    \A r \in rows : r.found => OwnRecord(p, r.data)
           ELSE \A r \in rows : ~r.found

\* witness of C12: both sessions are about to UPDATE their own rows at the same time,
\* and the two rows hold different classifications
C12_Witness ==
    /\ pc[1] = "save_write" /\ frame[1].existing.found
    /\ pc[2] = "save_write" /\ frame[2].existing.found
    /\ sess[1].memoryId # sess[2].memoryId
    /\ agent_memory[sess[1].memoryId].data.classification.format = "JSON"
    /\ agent_memory[sess[2].memoryId].data.classification.format = "Email"

(***************************************************************************)
(* lib/memory.ts: getAgentLogs; lib/logger.ts: logAgentActivity; callers   *)
(* of the log API (the logs route, tests).                                 *)
(***************************************************************************)
MaxLimit == 2

DefaultLimit == 50

\* the limits getAgentLogs is called with
Limits == (0..MaxLimit) \cup {DefaultLimit}

Min(a, b) == IF a < b THEN a ELSE b

\* logsStore.slice(0, limit)
Slice(store, limit) == SubSeq(store, 1, Min(limit, Len(store)))

\* no row has a later timestamp than a row before it
SortedDesc(rows) ==
    \A i, j \in 1..Len(rows) : i < j => rows[i].timestamp >= rows[j].timestamp

\* SELECT ... FROM agent_logs ORDER BY timestamp DESC LIMIT ${limit}: the answers the
\* database may give (rows with equal timestamps come in any order)
SelectLogs(table, limit) ==
    LET n == Min(limit, Cardinality(table))
    IN { rows \in [1..n -> table] :
            /\ \A i, j \in 1..n : i # j => rows[i] # rows[j]
            /\ SortedDesc(rows)
            /\ \A e \in table : (\A i \in 1..n : rows[i] # e) =>
                                    \A i \in 1..n : rows[i].timestamp >= e.timestamp }

\* the value getAgentLogs returns
LogsReturn(rows) == [status |-> "ok", success |-> TRUE, found |-> TRUE, data |-> rows]

\* the call getAgentLogs(limit) by caller p, returning to label k
CallGetLogs(p, limit, k) ==
    /\ frame' = [frame EXCEPT ![p] = [NoFrame EXCEPT !.fn = "getlogs", !.data = [limit |-> limit]]]
    /\ cont' = [cont EXCEPT ![p] = k]
    /\ UNCHANGED <<storeVars, hist>>
    /\ IF hasPg
       THEN /\ pc' = [pc EXCEPT ![p] = "logs_select"]
            /\ UNCHANGED ret
       ELSE /\ ret' = [ret EXCEPT ![p] = LogsReturn(Slice(logsStore, limit))]
            /\ pc' = [pc EXCEPT ![p] = k]

\* await sql`SELECT ... LIMIT` of getAgentLogs completes, or raises and the catch block
\* answers from logsStore
LogsSelect(p) ==
    /\ pc[p] = "logs_select"
    /\ UNCHANGED <<setup, storeVars, cont, sess, calls, sessions, hist>>
    /\ pc' = [pc EXCEPT ![p] = cont[p]]
    /\ \/ /\ \E rows \in SelectLogs(agent_logs, frame[p].data.limit) :
                ret' = [ret EXCEPT ![p] = LogsReturn(rows)]
          /\ UNCHANGED frame
       \/ /\ ret' = [ret EXCEPT ![p] = LogsReturn(Slice(logsStore, frame[p].data.limit))]
          /\ frame' = [frame EXCEPT ![p].caught = TRUE]

\* return { success: false, error } of logger.ts
LoggerCatchReturn == [status |-> "ok", success |-> FALSE, found |-> FALSE, data |-> EmptyRec]

\* the call logAgentActivity(agent, action, details) of logger.ts by caller p: a fresh id
\* is taken and the INSERT is awaited
LoggerCall(p, agent, action, details, k) ==
    /\ cont' = [cont EXCEPT ![p] = k]
    /\ uuids' = uuids + 1
    /\ frame' = [frame EXCEPT ![p] = [NoFrame EXCEPT !.fn = "logger",
                                        !.data = LogEntry(uuids + 1, agent, action, details, 0)]]
    /\ pc' = [pc EXCEPT ![p] = "logger_insert"]
    /\ UNCHANGED <<agent_memory, agent_logs, memoryStore, logsStore, now, ret, hist>>

\* await sql`INSERT INTO agent_logs (id, agent, action, details)` of logger.ts completes
\* (timestamp defaults to CURRENT_TIMESTAMP), or raises (always, with no connection
\* configured) and the catch block returns { success: false }
LoggerInsert(p) ==
    /\ pc[p] = "logger_insert"
    /\ UNCHANGED <<setup, agent_memory, memoryStore, logsStore, uuids, cont, sess, calls, sessions, hist>>
    /\ pc' = [pc EXCEPT ![p] = cont[p]]
    /\ \/ /\ hasPg
          /\ \E t \in ClockReadings :
                /\ agent_logs' = agent_logs \cup {[frame[p].data EXCEPT !.timestamp = t]}
                /\ now' = t
          /\ ret' = [ret EXCEPT ![p] = LogReturn]
          /\ UNCHANGED frame
       \/ /\ ret' = [ret EXCEPT ![p] = LoggerCatchReturn]
          /\ frame' = [frame EXCEPT ![p].caught = TRUE]
          /\ UNCHANGED <<agent_logs, now>>

ApiLog(p, agent, action, details) ==
    /\ pc[p] = "idle"
    /\ calls < MaxCalls
    /\ calls' = calls + 1
    /\ CallLog(p, agent, action, details, "api_ret")
    /\ UNCHANGED <<setup, sess, sessions>>

ApiLogger(p, agent, action, details) ==
    /\ pc[p] = "idle"
    /\ calls < MaxCalls
    /\ calls' = calls + 1
    /\ LoggerCall(p, agent, action, details, "api_ret")
    /\ UNCHANGED <<setup, sess, sessions>>

ApiGetLogs(p, limit) ==
    /\ pc[p] = "idle"
    /\ calls < MaxCalls
    /\ calls' = calls + 1
    /\ CallGetLogs(p, limit, "api_ret")
    /\ UNCHANGED <<setup, sess, sessions>>

\* an in-process log that already holds k entries, newest first
Prefilled(k) ==
    [i \in 1..k |-> LogEntry(k - i + 1, "Classifier", "Classification", <<"earlier">>, 0)]

\* the process has been logging for a while: the in-process log is empty or one entry
\* short of its capacity
InitLog ==
    /\ hasPg \in BOOLEAN
    /\ agent_memory = EmptyRec
    /\ agent_logs = {}
    /\ memoryStore = EmptyRec
    /\ \E k \in {0, LogCap - 1} :
          /\ logsStore = Prefilled(k)
          /\ uuids = k
    /\ now = 1
    /\ pc = [p \in Procs |-> "idle"]
    /\ cont = [p \in Procs |-> "idle"]
    /\ frame = [p \in Procs |-> NoFrame]
    /\ ret = [p \in Procs |-> NoRet]
    /\ sess = [p \in Procs |-> NoSess]
    /\ calls = 0
    /\ sessions = 0
    /\ hist = [id \in Ids |-> <<>>]
    /\ initialized = FALSE
    /\ schema = (IF hasPg THEN Tables ELSE {})
    /\ inits = 0

\* concurrent callers of the log API
NextLog ==
    \E p \in Procs :
        \/ ApiLog(p, "JSON", "Processing", <<"details">>)
        \/ ApiLogger(p, "Email", "Processing", <<"details">>)
        \/ \E limit \in Limits : ApiGetLogs(p, limit)
        \/ LogInsert(p)
        \/ LoggerInsert(p)
        \/ LogsSelect(p)
        \/ ApiReturn(p)

SpecLog == InitLog /\ [][NextLog]_vars

(***************************************************************************)
(* Claims about the activity log.                                          *)
(***************************************************************************)
\* caller p has been handed the value of a logAgentActivity call of lib/memory.ts
LogReturned(p) == frame[p].fn = "log" /\ pc[p] # "log_insert"

\* C13: a failure of the log write never propagates: every logAgentActivity call returns
\* normally with success, a raised durable write leaves the entry in the in-process log,
\* and no processInput session fails with a storage error.
C13_LogFailureNeverPropagates ==
    \A p \in Procs :
        /\ LogReturned(p) => ret[p].status = "ok" /\ ret[p].success
        /\ (LogReturned(p) /\ frame[p].caught) =>
                /\ Len(logsStore) > 0
                /\ logsStore[1].agent = frame[p].data.agent
                /\ logsStore[1].details = frame[p].data.details
        /\ sess[p].outcome.kind = "raised" => sess[p].outcome.message # Wrapped(StorageError)

\* witness of C13: processInput returned its result although the agent's durable log
\* write raised
C13_Witness ==
    \E p \in Procs :
        /\ pc[p] = "done"
        /\ sess[p].outcome.kind = "returned"
        /\ LogReturned(p)
        /\ frame[p].caught

\* this step is an append to the in-process log by some logAgentActivity call: the whole
\* call when no durable storage is configured, the catch block when the INSERT raised
AppendStep ==
    \E p \in Procs :
        \/ ~hasPg /\ uuids' # uuids /\ frame'[p].fn = "log" /\ frame'[p] # frame[p]
        \/ pc[p] = "log_insert" /\ frame'[p].caught

\* the in-process log after this step is the new entry followed by the newest
\* LogCap - 1 entries it held before
KeepsNewest ==
    /\ Len(logsStore') = Min(Len(logsStore) + 1, LogCap)
    /\ logsStore'[1].id = uuids'
    /\ \A i \in 2..Len(logsStore') : logsStore'[i] = logsStore[i - 1]

\* C14: the in-process log never holds more than 100 entries, they are in order of
\* append (newest first), and every append, on the path without durable storage and on
\* the durable-error fallback path, puts the new entry first and drops nothing but the
\* oldest entry of a full log; no other step changes the log.
C14_LogCapped ==
    /\ [](/\ Len(logsStore) <= LogCap
          /\ \A i \in 1..(Len(logsStore) - 1) : logsStore[i].id > logsStore[i + 1].id)
    /\ [][/\ AppendStep => KeepsNewest
          /\ ~AppendStep => logsStore' = logsStore]_vars

\* witness of C14: with durable storage configured, appends on the fallback path have
\* filled the log and pushed its oldest entry (id 1) out
C14_Witness ==
    /\ hasPg
    /\ Len(logsStore) = LogCap
    /\ logsStore[LogCap].id = 2
    /\ logsStore[1].id > LogCap

\* caller p has just been handed the value of a getAgentLogs call
LogsReturned(p) == frame[p].fn = "getlogs" /\ pc[p] = "api_ret"

\* C15: getAgentLogs(limit) returns at most limit entries, and no returned entry has a
\* later timestamp than an entry before it, after any logAgentActivity calls, concurrent
\* ones and ones that fell back included, whether the read is answered by the database
\* or by the in-process log.
C15_LogsLimitedNewestFirst ==
    \A p \in Procs :
        LogsReturned(p) =>
            LET rows == ret[p].data
            IN /\ ret[p].status = "ok"
               /\ Len(rows) <= frame[p].data.limit
               /\ \A i \in 1..Len(rows) : \A j \in (i + 1)..Len(rows) :
                      rows[j].timestamp <= rows[i].timestamp

\* witness of C15: a read that fell back to the in-process log returned its two newest
\* entries, of different timestamps, and left older ones out
C15_Witness ==
    \E p \in Procs :
        /\ LogsReturned(p)
        /\ frame[p].caught
        /\ frame[p].data.limit = 2
        /\ Len(ret[p].data) = 2
        /\ ret[p].data[1].timestamp > ret[p].data[2].timestamp
        /\ Len(logsStore) > 2

(***************************************************************************)
(* Further claims about the shared memory manager.                         *)
(***************************************************************************)
\* the answers a getFromMemory(id) call started in this state can give: the row of the
\* database when the SELECT succeeds, the fallback record when it raises, the fallback
\* record alone when no durable storage is configured
ReadAnswers(id) ==
    IF hasPg
    THEN {GetReturn(SelectData(agent_memory, id)), GetReturn(MemoryGet(memoryStore, id))}
    ELSE {GetReturn(MemoryGet(memoryStore, id))}

\* C16: reading is idempotent: when a getFromMemory(id) call has just returned, a second
\* call with no save in between returns the identical mapping, whether the durable
\* backend answers or raises at the second read.
C16_ReadIdempotent ==
    \A p \in Procs :
        Returned(p, "get") => \A r \in ReadAnswers(frame[p].id) : r = ret[p]

\* the answers a getAllMemory() call started in this state can give
AllMemoryAnswers ==
    LET fallback == {MemoryRows(memoryStore, t) : t \in RowsClock(memoryStore)}
    IN IF hasPg THEN {SelectAll(agent_memory)} \cup fallback ELSE fallback

\* the creation timestamps getAllMemory can report for id in this state
CreatedAtReports(id) ==
    {rows[id].created_at : rows \in {r \in AllMemoryAnswers : id \in DOMAIN r}}

\* C17: the creation timestamp of a session record never changes: once getAllMemory
\* reports a created_at for an id, no step (no later save, with any partial mapping and
\* any backend outcome) changes what it reports for that id.
C17_CreatedAtImmutable ==
    [][\A id \in Ids :
          CreatedAtReports(id) # {} => CreatedAtReports(id)' = CreatedAtReports(id)]_vars

(***************************************************************************)
(* Further claims about the agents.                                        *)
(***************************************************************************)
\* the log entries written by agent, in the database and in the in-process log
EntriesOf(agent) ==
    Cardinality({e \in agent_logs : e.agent = agent})
        + Cardinality({i \in 1..Len(logsStore) : logsStore[i].agent = agent})

\* C18: when the JSON agent's inference fails on content that parses as JSON (object,
\* array, scalar or null), the agent does not raise: processInput returns, the result
\* is the parsed data with empty missingFields and anomalies, and the agent made
\* exactly one write {agent, extractedFields, standardizedFormat} under the session id
\* and exactly one log write.
C18_JsonFallbackNeverRaises ==
    \A p \in Procs :
        LET s == sess[p]
        IN (/\ pc[p] = "done"
            /\ "JSON" \in s.agents
            /\ s.agentPath = "fallback"
            /\ JSONparse(s.content).ok) =>
                /\ s.outcome.kind = "returned"
                /\ s.result = [extractedFields |-> s.jsonData, missingFields |-> <<>>,
                               anomalies |-> <<>>, standardizedFormat |-> s.jsonData]
                /\ Cardinality({j \in 1..Len(hist[s.memoryId]) :
                                    "agent" \in DOMAIN hist[s.memoryId][j]}) = 1
                /\ \A j \in 1..Len(hist[s.memoryId]) :
                       "agent" \in DOMAIN hist[s.memoryId][j] =>
                            hist[s.memoryId][j] = JsonRecord([extractedFields |-> s.jsonData,
                                                              standardizedFormat |-> s.jsonData])
                /\ EntriesOf("JSON") = 1

(***************************************************************************)
(* Durable against ephemeral storage.                                      *)
(***************************************************************************)
\* the in-process store after the first n saves of the call history h of id, had no
\* durable storage been configured (the creation stamp is taken as reading 1)
RECURSIVE EphemeralRun(_, _, _)
EphemeralRun(id, h, n) ==
    IF n = 0 THEN EmptyRec ELSE MemoryMerge(EphemeralRun(id, h, n - 1), id, h[n], 1)

\* what getFromMemory(id) returns after the saves of h with no durable storage
EphemeralRead(id, h) == GetReturn(MemoryGet(EphemeralRun(id, h, Len(h)), id))

\* C19: with no backend error, what a read returns with durable storage configured is
\* what it returns, after the same saves, without: the same found / not found, the same
\* set of keys and the same values (the value of the creation stamp aside).
C19_DurableMatchesEphemeral ==
    \A p \in Procs :
        (hasPg /\ Returned(p, "get") /\ ~frame[p].caught /\ memoryStore = EmptyRec) =>
            LET durable == ret[p]
                ephemeral == EphemeralRead(frame[p].id, hist[frame[p].id])
            IN /\ durable.found = ephemeral.found
               /\ DOMAIN durable.data = DOMAIN ephemeral.data
               /\ \A k \in (DOMAIN durable.data) \cap (DOMAIN ephemeral.data) :
                      k # "created_at" => durable.data[k] = ephemeral.data[k]

(***************************************************************************)
(* Concurrent saves on one session id, durable path.                       *)
(***************************************************************************)
\* the partial mapping of the save that created the session record
RaceFirst == [a |-> 1]

\* the process starts on a database in which an earlier run left one session record
\* (the table outlives the process, memoryStore does not)
InitRace ==
    /\ hasPg = TRUE
    /\ \E id \in Ids :
        /\ agent_memory = InsertData(EmptyRec, id, RaceFirst, 1)
        /\ hist = [i \in Ids |-> IF i = id THEN <<RaceFirst>> ELSE <<>>]
    /\ agent_logs = {}
    /\ memoryStore = EmptyRec
    /\ logsStore = <<>>
    /\ now = 1
    /\ uuids = 0
    /\ pc = [p \in Procs |-> "idle"]
    /\ cont = [p \in Procs |-> "idle"]
    /\ frame = [p \in Procs |-> NoFrame]
    /\ ret = [p \in Procs |-> NoRet]
    /\ sess = [p \in Procs |-> NoSess]
    /\ calls = 0
    /\ sessions = 0
    /\ initialized = FALSE
    /\ schema = Tables
    /\ inits = 0

SpecRace == InitRace /\ [][Next]_vars

\* caller p's saveToMemory call has stored its merge with the UPDATE and returned
StoredByUpdate(p) ==
    /\ Returned(p, "save")
    /\ ~frame[p].caught
    /\ frame[p].existing.found

\* the step in which caller p's UPDATE completes
UpdateStep(p) ==
    /\ pc[p] = "save_write"
    /\ frame[p].existing.found
    /\ pc'[p] = "api_ret"
    /\ ~frame'[p].caught

\* the row the UPDATE of a call leaves: the merge of the record the call read with
\* the call's partial mapping, as JSON
StoredMerge(f) == JSONstringify(Merge(f.existing.data, f.data))

\* C20: on the durable path the UPDATE of a save stores the merge of the record the
\* call read, whatever the row holds by then; so once two concurrent saves on one id
\* that read the same record have both stored, the row is the merge of that record
\* with the partial mapping of one call only, and the keys the other call alone
\* supplied are missing from it.
C20_LostUpdate ==
    /\ [](\A p, q \in Procs :
            (/\ p # q
             /\ StoredByUpdate(p) /\ StoredByUpdate(q)
             /\ frame[p].id = frame[q].id
             /\ frame[p].existing = frame[q].existing)
            => /\ frame[p].id \in DOMAIN agent_memory
               /\ agent_memory[frame[p].id].data \in {StoredMerge(frame[p]), StoredMerge(frame[q])})
    /\ [][\A p \in Procs :
            UpdateStep(p) =>
                agent_memory'[frame[p].id].data = StoredMerge(frame[p])]_vars

\* two saves on the id completed after the one that created the row, nothing ever left
\* the durable path, the other caller's save read the record before key k was stored
\* and stored its merge after, and the record a durable read has just returned, which
\* is the row as it is, lacks k although a completed save supplied it and none
\* supplied it as undefined
C20_Witness ==
    \E p, q \in Procs :
        LET id == frame[p].id
        IN /\ p # q
           /\ Returned(p, "get")
           /\ ~frame[p].caught
           /\ memoryStore = EmptyRec
           /\ Len(hist[id]) = 3
           /\ StoredByUpdate(q)
           /\ frame[q].id = id
           /\ ret[p].found
           /\ ret[p].data = agent_memory[id].data
           /\ ret[p].data = StoredMerge(frame[q])
           /\ \E k \in PlainKeys(hist[id][2]) :
                /\ k \notin DOMAIN frame[q].existing.data
                /\ k \notin DOMAIN ret[p].data
                /\ \A j \in 1..3 : k \in DOMAIN hist[id][j] => hist[id][j][k] # Undefined

(***************************************************************************)
(* The read operations of the memory manager.                              *)
(***************************************************************************)
\* the partial mappings saved before the reads
ReadPartials == {[a |-> 1], [b |-> 2]}

\* one caller of the whole API of lib/memory.ts, one call at a time
NextRead ==
    \/ \E id \in Ids, data \in ReadPartials : ApiSave(1, id, data)
    \/ ApiLog(1, "JSON", "Processing", <<"details">>)
    \/ \E id \in Ids : ApiGet(1, id)
    \/ ApiGetAll(1)
    \/ \E limit \in Limits : ApiGetLogs(1, limit)
    \/ SaveSelect(1)
    \/ SaveWrite(1)
    \/ LogInsert(1)
    \/ GetSelect(1)
    \/ AllSelect(1)
    \/ LogsSelect(1)
    \/ ApiReturn(1)

SpecRead == Init /\ [][NextRead]_vars

ReadFns == {"get", "getall", "getlogs"}

\* C21: no read of the memory manager raises: getFromMemory, getAllMemory and
\* getAgentLogs return a value under every backend condition, and a read whose durable
\* call raised returns the contents of the in-process store: the fallback record of the
\* id or not-found, one row per fallback record holding that record, the first limit
\* entries of the in-process log.
C21_ReadsNeverRaise ==
    \A p \in Procs :
        (pc[p] = "api_ret" /\ frame[p].fn \in ReadFns) =>
            /\ ret[p].status = "ok"
            /\ (frame[p].caught /\ frame[p].fn = "get") =>
                 /\ ret[p].found = (frame[p].id \in DOMAIN memoryStore)
                 /\ ret[p].found => ret[p].data = memoryStore[frame[p].id]
            /\ (frame[p].caught /\ frame[p].fn = "getall") =>
                 /\ DOMAIN ret[p].data = DOMAIN memoryStore
                 /\ \A id \in DOMAIN memoryStore : ret[p].data[id].data = memoryStore[id]
            /\ (frame[p].caught /\ frame[p].fn = "getlogs") =>
                 /\ Len(ret[p].data) = Min(frame[p].data.limit, Len(logsStore))
                 /\ \A i \in 1..Len(ret[p].data) : ret[p].data[i] = logsStore[i]

\* witness of C21: the SELECT of a getFromMemory call raised and the call returned the
\* record a save that had fallen back left in the in-process store
C21_Witness ==
    /\ hasPg
    /\ pc[1] = "api_ret"
    /\ frame[1].fn = "get"
    /\ frame[1].caught
    /\ ret[1].status = "ok"
    /\ ret[1].found
    /\ ret[1].data = memoryStore[frame[1].id]

(***************************************************************************)
(* Further claims about the classifier and the orchestrator.               *)
(***************************************************************************)
\* the log entries of the agent with the given action, in the table and in the
\* in-process log
EntriesWith(agent, action) ==
    Cardinality({e \in agent_logs : e.agent = agent /\ e.action = action})
        + Cardinality({i \in 1..Len(logsStore) :
                          logsStore[i].agent = agent /\ logsStore[i].action = action})

\* C22: a classifierAgent invocation makes exactly one log write: when it returns, the
\* logs hold one "Classification" entry and no "Fallback Classification" entry if
\* inference succeeded, one "Fallback Classification" entry and no "Classification"
\* entry if it failed; at no point do they hold more than one entry of the classifier.
C22_ClassifierLogsOnce ==
    /\ EntriesOf("Classifier") <= 1
    /\ \A p \in Procs :
        pc[p] = "pi_classified" =>
            /\ EntriesOf("Classifier") = 1
            /\ EntriesWith("Classifier", "Classification") = (IF sess[p].inferOk THEN 1 ELSE 0)
            /\ EntriesWith("Classifier", "Fallback Classification") = (IF sess[p].inferOk THEN 0 ELSE 1)

\* witness of C22: inference succeeded, the durable log write raised, and the classifier
\* returned with its one "Classification" entry in the in-process log
C22_Witness ==
    \E p \in Procs :
        /\ pc[p] = "pi_classified"
        /\ sess[p].inferOk
        /\ frame[p].fn = "log"
        /\ frame[p].caught
        /\ EntriesWith("Classifier", "Classification") = 1
        /\ Len(logsStore) = 1

ClassificationFields == {"format", "intent", "confidence"}

\* rec holds a value under the key "classification"
HasClassification(store, id) ==
    id \in DOMAIN store /\ "classification" \in DOMAIN store[id]

\* the session records of the database, as id -> mapping
DurableRecords == [id \in DOMAIN agent_memory |-> agent_memory[id].data]

\* in the given store, the classification of the records of the running sessions is the
\* triple the classifier returned, without the reasoning
TripleStored(store) ==
    \A id \in DOMAIN store :
        HasClassification(store, id) =>
            /\ DOMAIN store[id].classification = ClassificationFields
            /\ \A p \in Procs :
                 sess[p].memoryId = id => store[id].classification = Triple(sess[p].classification)

\* C23: in every session record processInput writes, in the database and in the
\* in-process store, the value under "classification" has exactly the fields format,
\* intent and confidence, equal to what the classifier returned (the reasoning is not
\* stored), and no later write, the agent's included, changes or removes that value.
C23_ClassificationTriple ==
    /\ [](TripleStored(DurableRecords) /\ TripleStored(memoryStore))
    /\ [][\A id \in Ids :
            /\ HasClassification(DurableRecords, id) =>
                 /\ HasClassification(DurableRecords', id)
                 /\ DurableRecords'[id].classification = DurableRecords[id].classification
            /\ HasClassification(memoryStore, id) =>
                 /\ HasClassification(memoryStore', id)
                 /\ memoryStore'[id].classification = memoryStore[id].classification]_vars

\* witness of C23: a session returned after its agent's write was merged into the row
\* that held the classification, and the row holds the classifier's triple
C23_Witness ==
    \E p \in Procs :
        LET id == sess[p].memoryId
        IN /\ sess[p].outcome.kind = "returned"
           /\ sess[p].inferOk
           /\ HasClassification(DurableRecords, id)
           /\ "agent" \in DOMAIN DurableRecords[id]
           /\ DurableRecords[id].classification = Triple(sess[p].classification)
           /\ sess[p].classification.reasoning # "none"

(***************************************************************************)
(* Further claims about the activity log.                                  *)
(***************************************************************************)
\* the answers a getAgentLogs(limit) call started in this state can give
LogsAnswers(limit) ==
    IF hasPg
    THEN SelectLogs(agent_logs, limit) \cup {Slice(logsStore, limit)}
    ELSE {Slice(logsStore, limit)}

\* the position of entry e in rows, 0 when rows does not hold it
PositionIn(rows, e) ==
    IF \E i \in 1..Len(rows) : rows[i] = e
    THEN CHOOSE i \in 1..Len(rows) : rows[i] = e
    ELSE 0

\* C24: the log is append-only: while the in-process log has not reached its cap, every
\* entry a getAgentLogs call has returned is returned again, unchanged and in the same
\* order relative to the other entries, by a later call whose limit reaches every
\* entry, whether the durable backend answers or raises at that call.
C24_LogAppendOnly ==
    \A p \in Procs :
        (LogsReturned(p) /\ Len(logsStore) < LogCap) =>
            \A rows \in LogsAnswers(Len(logsStore) + Cardinality(agent_logs)) :
                /\ \A i \in 1..Len(ret[p].data) : PositionIn(rows, ret[p].data[i]) # 0
                /\ \A i, j \in 1..Len(ret[p].data) :
                     i < j => PositionIn(rows, ret[p].data[i]) < PositionIn(rows, ret[p].data[j])

(***************************************************************************)
(* Concurrent saves with no durable storage.                               *)
(***************************************************************************)
\* the value the last of the saves h that supplied key k gave it
LastValue(h, k) ==
    h[CHOOSE j \in 1..Len(h) :
          /\ k \in DOMAIN h[j]
          /\ \A l \in (j + 1)..Len(h) : k \notin DOMAIN h[l]][k]

\* C25: with no durable storage configured the merge of saveToMemory is atomic: after
\* any interleaving of concurrent saves on an id, the record holds every key any of
\* the calls supplied, with the value of the last call that supplied it.
C25_InMemoryAtomic ==
    ~hasPg =>
        \A id \in Ids :
            \A i \in 1..Len(hist[id]) :
                \A k \in DOMAIN hist[id][i] :
                    /\ id \in DOMAIN memoryStore
                    /\ k \in DOMAIN memoryStore[id]
                    /\ memoryStore[id][k] = LastValue(hist[id], k)

(***************************************************************************)
(* lib/memory.ts: initializeDatabase; app/api/logs/route.ts: GET.          *)
(***************************************************************************)
\* initializeDatabase returns (undefined) at the end of its try block
InitReturn == [status |-> "ok", success |-> TRUE, found |-> FALSE, data |-> EmptyRec]

\* mutant: the catch block of initializeDatabase rethrows
InitCatchReturn_rethrows == [status |-> "raised", success |-> FALSE, found |-> FALSE, data |-> EmptyRec]

\* the catch block of initializeDatabase logs the error and returns
InitCatchReturn == [status |-> "ok", success |-> FALSE, found |-> FALSE, data |-> EmptyRec]

\* CREATE TABLE IF NOT EXISTS t: a table that exists is left as it is
CreateTableIfNotExists(tables, t) == tables \cup {t}

\* a request reaches GET. With the flag set the handler goes on to getAgentLogs. With
\* the flag unset it calls initializeDatabase: with Postgres configured the call
\* suspends at its first await; without, it returns in the same tick and the handler's
\* continuation (flag set, getAgentLogs) runs before any other request is served.
RouteGet(p) ==
    /\ pc[p] = "idle"
    /\ calls < MaxCalls
    /\ calls' = calls + 1
    /\ UNCHANGED <<hasPg, schema, sess, sessions>>
    /\ IF initialized
       THEN /\ CallGetLogs(p, DefaultLimit, "route_logs")
            /\ UNCHANGED <<initialized, inits>>
       ELSE /\ inits' = inits + 1
            /\ IF hasPg
               THEN /\ frame' = [frame EXCEPT ![p] = [NoFrame EXCEPT !.fn = "init"]]
                    /\ pc' = [pc EXCEPT ![p] = "init_memory"]
                    /\ UNCHANGED <<storeVars, cont, ret, hist, initialized>>
               ELSE /\ initialized' = TRUE
                    /\ CallGetLogs(p, DefaultLimit, "route_logs")

\* the catch block of initializeDatabase, entered when the import or a CREATE raised
InitCatch(p) ==
    /\ ret' = [ret EXCEPT ![p] = InitCatchReturn]
    /\ frame' = [frame EXCEPT ![p].caught = TRUE]
    /\ pc' = [pc EXCEPT ![p] = "init_ret"]
    /\ UNCHANGED schema

\* await import(...) and await sql`CREATE TABLE IF NOT EXISTS agent_memory` complete,
\* or one of them raises
InitCreateMemory(p) ==
    /\ pc[p] = "init_memory"
    /\ UNCHANGED <<hasPg, storeVars, cont, sess, calls, sessions, hist, initialized, inits>>
    /\ \/ /\ schema' = CreateTableIfNotExists(schema, "agent_memory")
          /\ pc' = [pc EXCEPT ![p] = "init_logs"]
          /\ UNCHANGED <<ret, frame>>
       \/ InitCatch(p)

\* await sql`CREATE TABLE IF NOT EXISTS agent_logs` completes, or raises
InitCreateLogs(p) ==
    /\ pc[p] = "init_logs"
    /\ UNCHANGED <<hasPg, storeVars, cont, sess, calls, sessions, hist, initialized, inits>>
    /\ \/ /\ schema' = CreateTableIfNotExists(schema, "agent_logs")
          /\ ret' = [ret EXCEPT ![p] = InitReturn]
          /\ pc' = [pc EXCEPT ![p] = "init_ret"]
          /\ UNCHANGED frame
       \/ InitCatch(p)

\* GET's await of initializeDatabase resumes: the flag is set and getAgentLogs is called
\* (a raise would reach GET's catch block, which answers with status 500)
RouteInitialized(p) ==
    /\ pc[p] = "init_ret"
    /\ UNCHANGED <<hasPg, schema, sess, calls, sessions, inits>>
    /\ IF ret[p].status = "raised"
       THEN /\ pc' = [pc EXCEPT ![p] = "route_failed"]
            /\ UNCHANGED <<storeVars, cont, frame, ret, hist, initialized>>
       ELSE /\ initialized' = TRUE
            /\ CallGetLogs(p, DefaultLimit, "route_logs")

\* GET's await of getAgentLogs resumes and the response is sent
RouteRespond(p) ==
    /\ pc[p] \in {"route_logs", "route_failed"}
    /\ pc' = [pc EXCEPT ![p] = "idle"]
    /\ UNCHANGED <<setup, storeVars, cont, frame, ret, sess, calls, sessions, hist>>

\* the process starts; the database, when one is configured, holds any of its tables
InitRoute ==
    /\ hasPg \in BOOLEAN
    /\ schema \in (IF hasPg THEN SUBSET Tables ELSE {{}})
    /\ initialized = FALSE
    /\ inits = 0
    /\ agent_memory = EmptyRec
    /\ agent_logs = {}
    /\ memoryStore = EmptyRec
    /\ logsStore = <<>>
    /\ now = 1
    /\ uuids = 0
    /\ pc = [p \in Procs |-> "idle"]
    /\ cont = [p \in Procs |-> "idle"]
    /\ frame = [p \in Procs |-> NoFrame]
    /\ ret = [p \in Procs |-> NoRet]
    /\ sess = [p \in Procs |-> NoSess]
    /\ calls = 0
    /\ sessions = 0
    /\ hist = [id \in Ids |-> <<>>]

\* concurrent requests to the logs route, and agents logging
NextRoute ==
    \E p \in Procs :
        \/ RouteGet(p)
        \/ InitCreateMemory(p)
        \/ InitCreateLogs(p)
        \/ RouteInitialized(p)
        \/ LogsSelect(p)
        \/ RouteRespond(p)
        \/ ApiLog(p, "JSON", "Processing", <<"details">>)
        \/ LogInsert(p)
        \/ ApiReturn(p)

SpecRoute == InitRoute /\ [][NextRoute]_vars

\* caller p's initializeDatabase invocation has returned to GET
InitReturned(p) == pc[p] = "init_ret" /\ frame[p].fn = "init"

=============================================================================
